---- MODULE Spec2Model ----
(***************************************************************************)
(* Model of server/services/emailValidator.py: the EmailValidator class.   *)
(*                                                                         *)
(* validate_bulk calls validate_email for each address; validate_email     *)
(* normalises the address, checks its syntax, resolves the MX records of   *)
(* its domain and runs check_smtp_deliverability, which walks the sorted   *)
(* MX list and holds a partial SMTP conversation (connect, HELO, MAIL      *)
(* FROM, RCPT TO, QUIT) with each server.                                  *)
(*                                                                         *)
(* The resolver and the mail servers are the environment: every call into  *)
(* dns.resolver or smtplib is a step whose result is chosen among the      *)
(* results the library can produce (a reply, or one of its exceptions).    *)
(* smtplib closes the socket itself before it raises from send() or        *)
(* getreply(), and quit() closes it after the QUIT command; a connect()    *)
(* that fails in socket.create_connection never opens one.                 *)
(*                                                                         *)
(* Strings are sequences of one-character strings; SMTP reply texts are    *)
(* sequences of bytes.                                                     *)
(***************************************************************************)
EXTENDS Integers, Sequences, FiniteSets, TLC

VARIABLES
    emails,       \* validate_bulk: the argument, a sequence of raw addresses
    results,      \* validate_bulk: the list of records built so far
    idx,          \* validate_bulk: position of the address under validation
    pc,           \* the statement the interpreter is at
    email,        \* validate_email: the normalised address
    domain,       \* validate_email: email.split('@')[1]
    result,       \* validate_email: the record under construction
    checked,      \* validate_syntax: the string it was called with
    answer,       \* the rrset dns.resolver.resolve returned, resolver order
    dns_exc,      \* the exception dns.resolver.resolve raised ("" = none)
    dns_result,   \* validate_email: what check_dns_mx returned
    k,            \* check_smtp_deliverability: position in mx_records
    code,         \* check_smtp_deliverability: last reply code
    message,      \* check_smtp_deliverability: last reply text (bytes)
    smtp_result,  \* validate_email: what check_smtp_deliverability returned
    open,         \* the open sockets, each named by the position of its
                  \* address in the run and of its server in mx_records
    trail,        \* per server contacted in this validation: host, commands
                  \* issued, MAIL FROM and RCPT TO reply codes (0 = no reply),
                  \* address given to RCPT TO
    argv,         \* main: sys.argv[1:], the command-line arguments
    caller,       \* the function that called validate_email
    stdout,       \* main: what was printed
    exit_code     \* main: exit status of the process (-1 = running)

\* the state of the process around the validator
proc == <<argv, caller, stdout, exit_code>>

vars == <<emails, results, idx, pc, email, domain, result, answer, dns_exc,
          dns_result, k, code, message, smtp_result, open, trail, proc,
          checked>>

----------------------------------------------------------------------------
(* Bounds of the model *)

MaxBulk == 2      \* longest address list handed to validate_bulk
MaxMx == 2        \* most MX records in one resolver answer

----------------------------------------------------------------------------
(* Characters and strings *)

UpperSeq == <<"A","B","C","D","E","F","G","H","I","J","K","L","M",
              "N","O","P","Q","R","S","T","U","V","W","X","Y","Z">>

LowerSeq == <<"a","b","c","d","e","f","g","h","i","j","k","l","m",
              "n","o","p","q","r","s","t","u","v","w","x","y","z">>

Range(s) == {s[j] : j \in DOMAIN s}

Alpha == Range(UpperSeq) \cup Range(LowerSeq)

Digits == {"0","1","2","3","4","5","6","7","8","9"}

Whitespace == {" ", "\t", "\n", "\r"}

\* the class [a-zA-Z0-9._%+-]
LocalChars == Alpha \cup Digits \cup {".", "_", "%", "+", "-"}

\* the class [a-zA-Z0-9.-]
DomainChars == Alpha \cup Digits \cup {".", "-"}

\* str.lower() on one character
LowerChar(c) ==
    IF \E j \in DOMAIN UpperSeq : UpperSeq[j] = c
    THEN LowerSeq[CHOOSE j \in DOMAIN UpperSeq : UpperSeq[j] = c]
    ELSE c

\* str.lower()
Lower(s) == [j \in DOMAIN s |-> LowerChar(s[j])]

\* str.strip(): drop leading and trailing whitespace
Strip(s) ==
    LET keep == {j \in DOMAIN s : s[j] \notin Whitespace}
    IN  IF keep = {} THEN <<>>
        ELSE LET lo == CHOOSE j \in keep : \A h \in keep : j <= h
                 hi == CHOOSE j \in keep : \A h \in keep : h <= j
             IN  SubSeq(s, lo, hi)

\* email.strip().lower()
Normalize(s) == Lower(Strip(s))

AllIn(s, lo, hi, class) == \A j \in lo..hi : s[j] \in class

\* validate_syntax: re.match of
\*   ^[a-zA-Z0-9._%+-]+@[a-zA-Z0-9.-]+\.[a-zA-Z]{2,}$
\* '$' also matches just before one trailing newline.
validate_syntax(s) ==
    \E end \in {Len(s)} \cup {n \in {Len(s) - 1} : n >= 0 /\ s[Len(s)] = "\n"} :
      \E at \in 1..end : \E dot \in 1..end :
        /\ s[at] = "@"
        /\ s[dot] = "."
        /\ at >= 2
        /\ AllIn(s, 1, at - 1, LocalChars)
        /\ dot >= at + 2
        /\ AllIn(s, at + 1, dot - 1, DomainChars)
        /\ end >= dot + 2
        /\ AllIn(s, dot + 1, end, Alpha)

\* s.split('@')[1]: the text between the first '@' and the next one
SplitDomain(s) ==
    LET ats == {j \in DOMAIN s : s[j] = "@"}
        first == CHOOSE j \in ats : \A h \in ats : j <= h
        later == {j \in ats : j > first}
        stop == IF later = {} THEN Len(s) + 1
                ELSE CHOOSE j \in later : \A h \in later : j <= h
    IN  SubSeq(s, first + 1, stop - 1)

----------------------------------------------------------------------------
(* Reply texts: bytes.decode() is a strict UTF-8 decode *)

Cont(b) == b >= 128 /\ b <= 191

\* length of the well-formed UTF-8 sequence that starts at b[j], 0 if none
Utf8Len(b, j) ==
    LET n == Len(b)
        c == b[j]
    IN  IF c <= 127 THEN 1
        ELSE IF c >= 194 /\ c <= 223
             THEN IF j + 1 <= n /\ Cont(b[j + 1]) THEN 2 ELSE 0
        ELSE IF c >= 224 /\ c <= 239
             THEN IF /\ j + 2 <= n
                     /\ Cont(b[j + 1])
                     /\ Cont(b[j + 2])
                     /\ (c = 224 => b[j + 1] >= 160)
                     /\ (c = 237 => b[j + 1] <= 159)
                  THEN 3 ELSE 0
        ELSE IF c >= 240 /\ c <= 244
             THEN IF /\ j + 3 <= n
                     /\ Cont(b[j + 1])
                     /\ Cont(b[j + 2])
                     /\ Cont(b[j + 3])
                     /\ (c = 240 => b[j + 1] >= 144)
                     /\ (c = 244 => b[j + 1] <= 143)
                  THEN 4 ELSE 0
        ELSE 0

\* the code point encoded at b[j] by a sequence of length len
CodePoint(b, j, len) ==
    CASE len = 1 -> b[j]
      [] len = 2 -> (b[j] - 192) * 64 + (b[j + 1] - 128)
      [] len = 3 -> (b[j] - 224) * 4096 + (b[j + 1] - 128) * 64
                    + (b[j + 2] - 128)
      [] len = 4 -> (b[j] - 240) * 262144 + (b[j + 1] - 128) * 4096
                    + (b[j + 2] - 128) * 64 + (b[j + 3] - 128)

RECURSIVE DecodeFrom(_, _)
\* message.decode() from byte j on: [ok, text]; ok = FALSE is
\* UnicodeDecodeError
DecodeFrom(b, j) ==
    IF j > Len(b) THEN [ok |-> TRUE, text |-> <<>>]
    ELSE LET len == Utf8Len(b, j)
         IN  IF len = 0 THEN [ok |-> FALSE, text |-> <<>>]
             ELSE LET rest == DecodeFrom(b, j + len)
                  IN  [ok |-> rest.ok,
                       text |-> IF rest.ok
                                THEN <<CodePoint(b, j, len)>> \o rest.text
                                ELSE <<>>]

Decode(b) == DecodeFrom(b, 1)

----------------------------------------------------------------------------
(* The environment: inputs, resolver answers, server replies *)

\* "a@b.cc"
AddrPlain == <<"a", "@", "b", ".", "c", "c">>

\* " A@b.Cc\n"
AddrCased == <<" ", "A", "@", "b", ".", "C", "c", "\n">>

\* "ab.cc"
AddrNoAt == <<"a", "b", ".", "c", "c">>

\* "a@b.c"
AddrShortTld == <<"a", "@", "b", ".", "c">>

Addresses == {AddrPlain, AddrCased, AddrNoAt, AddrShortTld}

RECURSIVE SeqsUpTo(_, _)
\* the sequences over S of length at most n
SeqsUpTo(S, n) ==
    IF n = 0 THEN {<<>>}
    ELSE LET shorter == SeqsUpTo(S, n - 1)
         IN  shorter \cup {Append(s, x) : s \in shorter, x \in S}

Hosts == {"mx1", "mx2"}

Priorities == {10, 20}

MxRecord == [priority : Priorities, exchange : Hosts]

\* an rrset: at least one record, no record twice
MxAnswers(n) ==
    {a \in SeqsUpTo(MxRecord, n) :
        /\ Len(a) >= 1
        /\ \A p, q \in DOMAIN a : p # q => a[p] # a[q]}

\* what dns.resolver.resolve can raise
DnsErrors == {"NXDOMAIN", "NoAnswer", "Timeout"}

MailCodes == {250, 550}

RcptCodes == {250, 550, 451, 452, 450}

\* "OK", "\xc3\xa9" (U+00E9), "\xff"
Messages == {<<79, 75>>, <<195, 169>>, <<255>>}

\* MAIL FROM reply texts: "OK"
MailMessages == {<<79, 75>>}

----------------------------------------------------------------------------
(* check_dns_mx *)

\* InsertByPriority with ties put in front: an unstable sort
InsertByPriority_Unstable(s, x) ==
    LET n == Cardinality({j \in DOMAIN s : s[j].priority < x.priority})
    IN  SubSeq(s, 1, n) \o <<x>> \o SubSeq(s, n + 1, Len(s))

\* sorted() on a list that is already sorted, extended by x: x goes behind
\* every record whose key is not larger (sorted() is stable)
InsertByPriority(s, x) ==
    LET n == Cardinality({j \in DOMAIN s : s[j].priority <= x.priority})
    IN  SubSeq(s, 1, n) \o <<x>> \o SubSeq(s, n + 1, Len(s))

RECURSIVE SortedByPriority(_)
\* sorted(mx_list, key=lambda x: x['priority'])
SortedByPriority(a) ==
    IF a = <<>> THEN <<>>
    ELSE InsertByPriority(SortedByPriority(SubSeq(a, 1, Len(a) - 1)),
                          a[Len(a)])

\* check_dns_mx when resolve returned the rrset a
DnsValid(a) == [valid |-> TRUE, mx_records |-> SortedByPriority(a)]

\* DnsInvalid with the valid flag of the success branch
DnsInvalid_Valid == [valid |-> TRUE, mx_records |-> <<>>]

\* check_dns_mx when resolve raised
DnsInvalid == [valid |-> FALSE, mx_records |-> <<>>]

----------------------------------------------------------------------------
(* Values *)

\* a local that holds nothing yet
None == [none |-> TRUE]

\* NewResult with the detail fields filled in advance
NewResult_NullFilled(e) ==
    [email |-> e,
     valid |-> FALSE,
     checks |-> [syntax |-> FALSE, dns |-> FALSE, smtp |-> FALSE],
     details |-> ("smtp_error" :> "") @@ ("mx_records" :> <<>>)]

\* validate_email: the record before any check
NewResult(e) ==
    [email |-> e,
     valid |-> FALSE,
     checks |-> [syntax |-> FALSE, dns |-> FALSE, smtp |-> FALSE],
     details |-> <<>>]

\* mx_record['exchange'] of the server the loop is at
mx_server == dns_result.mx_records[k].exchange

\* the socket of the server the loop is at
Sock == <<idx, k>>

\* a server newly contacted
NewContact(h) ==
    [host |-> h, cmds |-> <<"connect">>, mail |-> 0, rcpt |-> 0,
     to |-> <<>>, raised |-> FALSE]

\* the entry of the server the loop is at, with one more command issued
Issued(cmd) ==
    [trail EXCEPT ![Len(trail)].cmds = Append(@, cmd)]

\* the same, when the call that issued the command raised
IssuedRaised(cmd) ==
    [trail EXCEPT ![Len(trail)].cmds = Append(@, cmd),
                  ![Len(trail)].raised = TRUE]

Init0 ==
    /\ results = <<>>
    /\ idx = 1
    /\ pc = "bulk"
    /\ email = <<>>
    /\ domain = <<>>
    /\ result = None
    /\ checked = <<>>
    /\ answer = <<>>
    /\ dns_exc = ""
    /\ dns_result = None
    /\ k = 0
    /\ code = 0
    /\ message = <<>>
    /\ smtp_result = None
    /\ open = {}
    /\ trail = <<>>
    /\ argv = <<>>
    /\ caller = "validate_bulk"
    /\ stdout = None
    /\ exit_code = -1

\* one address is validated
Init ==
    /\ emails \in {<<a>> : a \in Addresses}
    /\ Init0

\* a list of addresses is validated
InitBulk ==
    /\ emails \in SeqsUpTo(Addresses, MaxBulk)
    /\ Init0

----------------------------------------------------------------------------
(* validate_bulk and validate_email *)

\* BulkLoop with the record created from the address as given, before it is
\* normalised
BulkLoop_RecordBeforeNormalize ==
    /\ pc = "bulk"
    /\ idx <= Len(emails)
    /\ email' = Normalize(emails[idx])
    /\ result' = NewResult(emails[idx])
    /\ pc' = "syntax"
    /\ UNCHANGED <<emails, results, idx, domain, answer, dns_exc, dns_result,
                   k, code, message, smtp_result, open, trail>>
    /\ UNCHANGED proc
    /\ UNCHANGED checked

\* validate_bulk: the loop takes the next address and calls validate_email,
\* which normalises it and creates the record
BulkLoop ==
    /\ pc = "bulk"
    /\ idx <= Len(emails)
    /\ email' = Normalize(emails[idx])
    /\ result' = NewResult(Normalize(emails[idx]))
    /\ pc' = "syntax"
    /\ UNCHANGED <<emails, results, idx, domain, answer, dns_exc, dns_result,
                   k, code, message, smtp_result, open, trail>>
    /\ UNCHANGED proc
    /\ UNCHANGED checked

\* SyntaxFail without its return: the checks go on
SyntaxFail_NoReturn ==
    /\ pc = "syntax"
    /\ ~validate_syntax(email)
    /\ result' = [result EXCEPT
                    !.details = @ @@ ("syntax_error" :> "Invalid email format"),
                    !.checks.syntax = TRUE]
    /\ checked' = email
    /\ pc' = "dns"
    /\ UNCHANGED <<emails, results, idx, email, domain, answer, dns_exc,
                   dns_result, k, code, message, smtp_result, open, trail>>
    /\ UNCHANGED proc

\* validate_email: the syntax check fails, the record is returned
SyntaxFail ==
    /\ pc = "syntax"
    /\ ~validate_syntax(email)
    /\ result' = [result EXCEPT
                    !.details = @ @@ ("syntax_error" :> "Invalid email format")]
    /\ checked' = email
    /\ pc' = "return"
    /\ UNCHANGED <<emails, results, idx, email, domain, answer, dns_exc,
                   dns_result, k, code, message, smtp_result, open, trail>>
    /\ UNCHANGED proc

\* validate_email: the syntax check passes, the domain is split off
SyntaxPass ==
    /\ pc = "syntax"
    /\ validate_syntax(email)
    /\ result' = [result EXCEPT !.checks.syntax = TRUE]
    /\ domain' = SplitDomain(email)
    /\ checked' = email
    /\ pc' = "dns"
    /\ UNCHANGED <<emails, results, idx, email, answer, dns_exc, dns_result,
                   k, code, message, smtp_result, open, trail>>
    /\ UNCHANGED proc

\* check_dns_mx: resolve returns the rrset a
DnsResolved(a) ==
    /\ pc = "dns"
    /\ answer' = a
    /\ dns_exc' = ""
    /\ dns_result' = DnsValid(a)
    /\ pc' = "gate"
    /\ UNCHANGED <<emails, results, idx, email, domain, result, k, code,
                   message, smtp_result, open, trail>>
    /\ UNCHANGED proc
    /\ UNCHANGED checked

\* check_dns_mx: resolve raises e, which the except clause catches
DnsRaised(e) ==
    /\ pc = "dns"
    /\ e \in DnsErrors
    /\ answer' = <<>>
    /\ dns_exc' = e
    /\ dns_result' = DnsInvalid
    /\ pc' = "gate"
    /\ UNCHANGED <<emails, results, idx, email, domain, result, k, code,
                   message, smtp_result, open, trail>>
    /\ UNCHANGED proc
    /\ UNCHANGED checked

\* DnsGateFail without its return: the probe is called with the empty list
DnsGateFail_NoReturn ==
    /\ pc = "gate"
    /\ ~dns_result.valid
    /\ result' = [result EXCEPT
                    !.checks.dns = TRUE,
                    !.details = @ @@ ("dns_error" :>
                                        "No MX records found for domain")
                                  @@ ("mx_records" :> dns_result.mx_records)]
    /\ smtp_result' = [valid |-> FALSE, reason |-> "No MX records found"]
    /\ pc' = "assemble"
    /\ UNCHANGED <<emails, results, idx, email, domain, answer, dns_exc,
                   dns_result, k, code, message, open, trail>>
    /\ UNCHANGED proc
    /\ UNCHANGED checked

\* validate_email: check_dns_mx found nothing, the record is returned
DnsGateFail ==
    /\ pc = "gate"
    /\ ~dns_result.valid
    /\ result' = [result EXCEPT
                    !.details = @ @@ ("dns_error" :>
                                        "No MX records found for domain")]
    /\ pc' = "return"
    /\ UNCHANGED <<emails, results, idx, email, domain, answer, dns_exc,
                   dns_result, k, code, message, smtp_result, open, trail>>
    /\ UNCHANGED proc
    /\ UNCHANGED checked

\* validate_email: check_dns_mx found records; check_smtp_deliverability is
\* called with them and enters its loop, or returns at once on an empty list
DnsGatePass ==
    /\ pc = "gate"
    /\ dns_result.valid
    /\ result' = [result EXCEPT
                    !.checks.dns = TRUE,
                    !.details = @ @@ ("mx_records" :> dns_result.mx_records)]
    /\ IF dns_result.mx_records = <<>>
       THEN /\ smtp_result' = [valid |-> FALSE,
                               reason |-> "No MX records found"]
            /\ k' = k
            /\ pc' = "assemble"
       ELSE /\ smtp_result' = smtp_result
            /\ k' = 1
            /\ pc' = "loop"
    /\ UNCHANGED <<emails, results, idx, email, domain, answer, dns_exc,
                   dns_result, code, message, open, trail>>
    /\ UNCHANGED proc
    /\ UNCHANGED checked

\* validate_email: the probe's result is put into the record
Assemble ==
    /\ pc = "assemble"
    /\ result' =
         IF smtp_result.valid
         THEN [result EXCEPT
                 !.checks.smtp = TRUE,
                 !.valid = TRUE,
                 !.details = @ @@ ("smtp" :> smtp_result)]
         ELSE [result EXCEPT
                 !.details = @ @@ ("smtp_error" :> smtp_result.reason)
                               @@ ("smtp" :> smtp_result)]
    /\ pc' = "return"
    /\ UNCHANGED <<emails, results, idx, email, domain, answer, dns_exc,
                   dns_result, k, code, message, smtp_result, open, trail>>
    /\ UNCHANGED proc
    /\ UNCHANGED checked

\* validate_bulk: the record validate_email returned is appended; the
\* locals of the call are gone
BulkAppend ==
    /\ pc = "return"
    /\ caller = "validate_bulk"
    /\ results' = Append(results, result)
    /\ idx' = idx + 1
    /\ email' = <<>>
    /\ domain' = <<>>
    /\ result' = None
    /\ checked' = <<>>
    /\ answer' = <<>>
    /\ dns_exc' = ""
    /\ dns_result' = None
    /\ k' = 0
    /\ code' = 0
    /\ message' = <<>>
    /\ smtp_result' = None
    /\ trail' = <<>>
    /\ pc' = "bulk"
    /\ UNCHANGED <<emails, open>>
    /\ UNCHANGED proc

\* validate_bulk: the list is exhausted, the records are returned
BulkReturn ==
    /\ pc = "bulk"
    /\ idx > Len(emails)
    /\ pc' = "done"
    /\ UNCHANGED <<emails, results, idx, email, domain, result, answer,
                   dns_exc, dns_result, k, code, message, smtp_result, open,
                   trail>>
    /\ UNCHANGED proc
    /\ UNCHANGED checked

----------------------------------------------------------------------------
(* check_smtp_deliverability: one step per smtplib call *)

\* RaisedContinue that tries the same server again
RaisedContinue_Retry ==
    /\ open' = open \ {Sock}
    /\ k' = k
    /\ pc' = "loop"

\* RaisedContinue with break in place of continue
RaisedContinue_Break ==
    /\ open' = open \ {Sock}
    /\ k' = Len(dns_result.mx_records) + 1
    /\ pc' = "loop"

\* smtplib raised with the socket of server k closed (or never opened); the
\* except clause goes on to the next MX server
RaisedContinue ==
    /\ open' = open \ {Sock}
    /\ k' = k + 1
    /\ pc' = "loop"

\* server.connect: socket.create_connection fails (refused, timeout,
\* unknown host); no socket exists
ConnectRefused ==
    /\ pc = "loop"
    /\ k <= Len(dns_result.mx_records)
    /\ trail' = Append(trail, [NewContact(mx_server) EXCEPT !.raised = TRUE])
    /\ RaisedContinue
    /\ UNCHANGED <<emails, results, idx, email, domain, result, answer,
                   dns_exc, dns_result, code, message, smtp_result>>
    /\ UNCHANGED proc
    /\ UNCHANGED checked

\* server.connect: the socket opens but the greeting cannot be read;
\* getreply closes the socket and raises
ConnectNoGreeting ==
    /\ pc = "loop"
    /\ k <= Len(dns_result.mx_records)
    /\ trail' = Append(trail, [NewContact(mx_server) EXCEPT
                                 !.cmds = Append(@, "greeting"),
                                 !.raised = TRUE])
    /\ RaisedContinue
    /\ UNCHANGED <<emails, results, idx, email, domain, result, answer,
                   dns_exc, dns_result, code, message, smtp_result>>
    /\ UNCHANGED proc
    /\ UNCHANGED checked

\* ConnectOk without the HELO that follows it
ConnectOk_NoHelo ==
    /\ pc = "loop"
    /\ k <= Len(dns_result.mx_records)
    /\ trail' = Append(trail, [NewContact(mx_server) EXCEPT
                                 !.cmds = Append(@, "greeting")])
    /\ open' = open \cup {Sock}
    /\ pc' = "mail"
    /\ UNCHANGED <<emails, results, idx, email, domain, result, answer,
                   dns_exc, dns_result, k, code, message, smtp_result>>
    /\ UNCHANGED proc
    /\ UNCHANGED checked

\* server.connect: the socket opens and the server greets
ConnectOk ==
    /\ pc = "loop"
    /\ k <= Len(dns_result.mx_records)
    /\ trail' = Append(trail, [NewContact(mx_server) EXCEPT
                                 !.cmds = Append(@, "greeting")])
    /\ open' = open \cup {Sock}
    /\ pc' = "helo"
    /\ UNCHANGED <<emails, results, idx, email, domain, result, answer,
                   dns_exc, dns_result, k, code, message, smtp_result>>
    /\ UNCHANGED proc
    /\ UNCHANGED checked

\* server.helo returns (its reply code is not looked at)
HeloOk ==
    /\ pc = "helo"
    /\ trail' = Issued("HELO")
    /\ pc' = "mail"
    /\ UNCHANGED <<emails, results, idx, email, domain, result, answer,
                   dns_exc, dns_result, k, code, message, smtp_result, open>>
    /\ UNCHANGED proc
    /\ UNCHANGED checked

\* server.helo raises
HeloRaised ==
    /\ pc = "helo"
    /\ trail' = IssuedRaised("HELO")
    /\ RaisedContinue
    /\ UNCHANGED <<emails, results, idx, email, domain, result, answer,
                   dns_exc, dns_result, code, message, smtp_result>>
    /\ UNCHANGED proc
    /\ UNCHANGED checked

\* MailReply without the test of the reply code
MailReply_AnyCode(c, m) ==
    /\ pc = "mail"
    /\ trail' = [Issued("MAIL") EXCEPT ![Len(trail)].mail = c]
    /\ code' = c
    /\ message' = m
    /\ pc' = "rcpt"
    /\ UNCHANGED <<emails, results, idx, email, domain, result, answer,
                   dns_exc, dns_result, k, smtp_result, open>>
    /\ UNCHANGED proc
    /\ UNCHANGED checked

\* MailReply without the quit before continue
MailReply_NoQuit(c, m) ==
    /\ pc = "mail"
    /\ trail' = [Issued("MAIL") EXCEPT ![Len(trail)].mail = c]
    /\ code' = c
    /\ message' = m
    /\ pc' = IF c # 250 THEN "loop" ELSE "rcpt"
    /\ k' = IF c # 250 THEN k + 1 ELSE k
    /\ UNCHANGED <<emails, results, idx, email, domain, result, answer,
                   dns_exc, dns_result, smtp_result, open>>
    /\ UNCHANGED proc
    /\ UNCHANGED checked

\* server.mail returns (c, m); any code but 250 leads to quit and continue
MailReply(c, m) ==
    /\ pc = "mail"
    /\ trail' = [Issued("MAIL") EXCEPT ![Len(trail)].mail = c]
    /\ code' = c
    /\ message' = m
    /\ pc' = IF c # 250 THEN "mail_quit" ELSE "rcpt"
    /\ UNCHANGED <<emails, results, idx, email, domain, result, answer,
                   dns_exc, dns_result, k, smtp_result, open>>
    /\ UNCHANGED proc
    /\ UNCHANGED checked

\* server.mail raises
MailRaised ==
    /\ pc = "mail"
    /\ trail' = IssuedRaised("MAIL")
    /\ RaisedContinue
    /\ UNCHANGED <<emails, results, idx, email, domain, result, answer,
                   dns_exc, dns_result, code, message, smtp_result>>
    /\ UNCHANGED proc
    /\ UNCHANGED checked

\* server.quit after a refused MAIL FROM returns; the socket is closed and
\* the loop continues
MailQuitOk ==
    /\ pc = "mail_quit"
    /\ trail' = Issued("QUIT")
    /\ open' = open \ {Sock}
    /\ k' = k + 1
    /\ pc' = "loop"
    /\ UNCHANGED <<emails, results, idx, email, domain, result, answer,
                   dns_exc, dns_result, code, message, smtp_result>>
    /\ UNCHANGED proc
    /\ UNCHANGED checked

\* server.quit after a refused MAIL FROM raises
MailQuitRaised ==
    /\ pc = "mail_quit"
    /\ trail' = IssuedRaised("QUIT")
    /\ RaisedContinue
    /\ UNCHANGED <<emails, results, idx, email, domain, result, answer,
                   dns_exc, dns_result, code, message, smtp_result>>
    /\ UNCHANGED proc
    /\ UNCHANGED checked

\* RcptReply without the quit that follows it
RcptReply_NoQuit(c, m) ==
    /\ pc = "rcpt"
    /\ trail' = [Issued("RCPT") EXCEPT ![Len(trail)].rcpt = c,
                                       ![Len(trail)].to = email]
    /\ code' = c
    /\ message' = m
    /\ pc' = "classify"
    /\ UNCHANGED <<emails, results, idx, email, domain, result, answer,
                   dns_exc, dns_result, k, smtp_result, open>>
    /\ UNCHANGED proc
    /\ UNCHANGED checked

\* server.rcpt returns (c, m)
RcptReply(c, m) ==
    /\ pc = "rcpt"
    /\ trail' = [Issued("RCPT") EXCEPT ![Len(trail)].rcpt = c,
                                       ![Len(trail)].to = email]
    /\ code' = c
    /\ message' = m
    /\ pc' = "rcpt_quit"
    /\ UNCHANGED <<emails, results, idx, email, domain, result, answer,
                   dns_exc, dns_result, k, smtp_result, open>>
    /\ UNCHANGED proc
    /\ UNCHANGED checked

\* server.rcpt raises
RcptRaised ==
    /\ pc = "rcpt"
    /\ trail' = [IssuedRaised("RCPT") EXCEPT ![Len(trail)].to = email]
    /\ RaisedContinue
    /\ UNCHANGED <<emails, results, idx, email, domain, result, answer,
                   dns_exc, dns_result, code, message, smtp_result>>
    /\ UNCHANGED proc
    /\ UNCHANGED checked

\* server.quit after RCPT TO returns; the socket is closed and the reply
\* code of RCPT TO is looked at next
RcptQuitOk ==
    /\ pc = "rcpt_quit"
    /\ trail' = Issued("QUIT")
    /\ open' = open \ {Sock}
    /\ pc' = "classify"
    /\ UNCHANGED <<emails, results, idx, email, domain, result, answer,
                   dns_exc, dns_result, k, code, message, smtp_result>>
    /\ UNCHANGED proc
    /\ UNCHANGED checked

\* server.quit after RCPT TO raises: the except clause goes on to the next
\* MX server, whatever RCPT TO answered
RcptQuitRaised ==
    /\ pc = "rcpt_quit"
    /\ trail' = IssuedRaised("QUIT")
    /\ RaisedContinue
    /\ UNCHANGED <<emails, results, idx, email, domain, result, answer,
                   dns_exc, dns_result, code, message, smtp_result>>
    /\ UNCHANGED proc
    /\ UNCHANGED checked

\* code == 250 and the reply text decodes: the address is accepted
Accepted ==
    /\ pc = "classify"
    /\ code = 250
    /\ Decode(message).ok
    /\ smtp_result' = [valid |-> TRUE,
                       mx_server |-> mx_server,
                       smtp_response |-> Decode(message).text]
    /\ pc' = "assemble"
    /\ UNCHANGED <<emails, results, idx, email, domain, result, answer,
                   dns_exc, dns_result, k, code, message, open, trail>>
    /\ UNCHANGED proc
    /\ UNCHANGED checked

\* code == 250 and message.decode() raises UnicodeDecodeError, which no
\* except clause of the class catches: it leaves validate_email and
\* validate_bulk
AcceptedUndecodable ==
    /\ pc = "classify"
    /\ code = 250
    /\ ~Decode(message).ok
    /\ pc' = "raised"
    /\ UNCHANGED <<emails, results, idx, email, domain, result, answer,
                   dns_exc, dns_result, k, code, message, smtp_result, open,
                   trail>>
    /\ UNCHANGED proc
    /\ UNCHANGED checked

\* Rejected with the valid flag of the 451 branch
Rejected_AsValid ==
    /\ pc = "classify"
    /\ code = 550
    /\ smtp_result' = [valid |-> TRUE,
                       reason |-> "Email address does not exist",
                       mx_server |-> mx_server,
                       smtp_code |-> code]
    /\ pc' = "assemble"
    /\ UNCHANGED <<emails, results, idx, email, domain, result, answer,
                   dns_exc, dns_result, k, code, message, open, trail>>
    /\ UNCHANGED proc
    /\ UNCHANGED checked

\* code == 550: the address is rejected
Rejected ==
    /\ pc = "classify"
    /\ code = 550
    /\ smtp_result' = [valid |-> FALSE,
                       reason |-> "Email address does not exist",
                       mx_server |-> mx_server,
                       smtp_code |-> code]
    /\ pc' = "assemble"
    /\ UNCHANGED <<emails, results, idx, email, domain, result, answer,
                   dns_exc, dns_result, k, code, message, open, trail>>
    /\ UNCHANGED proc
    /\ UNCHANGED checked

\* TemporaryFailure without the server in its result
TemporaryFailure_NoServer ==
    /\ pc = "classify"
    /\ code \in {451, 452}
    /\ smtp_result' = [valid |-> TRUE,
                       reason |-> "Temporary server issue",
                       smtp_code |-> code]
    /\ pc' = "assemble"
    /\ UNCHANGED <<emails, results, idx, email, domain, result, answer,
                   dns_exc, dns_result, k, code, message, open, trail>>
    /\ UNCHANGED proc
    /\ UNCHANGED checked

\* code == 451 or code == 452: assumed valid
TemporaryFailure ==
    /\ pc = "classify"
    /\ code \in {451, 452}
    /\ smtp_result' = [valid |-> TRUE,
                       reason |-> "Temporary server issue",
                       mx_server |-> mx_server,
                       smtp_code |-> code]
    /\ pc' = "assemble"
    /\ UNCHANGED <<emails, results, idx, email, domain, result, answer,
                   dns_exc, dns_result, k, code, message, open, trail>>
    /\ UNCHANGED proc
    /\ UNCHANGED checked

\* Inconclusive that returns a rejection in place of continue
Inconclusive_Reject ==
    /\ pc = "classify"
    /\ code \notin {250, 550, 451, 452}
    /\ smtp_result' = [valid |-> FALSE,
                       reason |-> "Email address does not exist",
                       mx_server |-> mx_server,
                       smtp_code |-> code]
    /\ pc' = "assemble"
    /\ UNCHANGED <<emails, results, idx, email, domain, result, answer,
                   dns_exc, dns_result, k, code, message, open, trail>>
    /\ UNCHANGED proc
    /\ UNCHANGED checked

\* any other code: try the next MX server
Inconclusive ==
    /\ pc = "classify"
    /\ code \notin {250, 550, 451, 452}
    /\ k' = k + 1
    /\ pc' = "loop"
    /\ UNCHANGED <<emails, results, idx, email, domain, result, answer,
                   dns_exc, dns_result, code, message, smtp_result, open,
                   trail>>
    /\ UNCHANGED proc
    /\ UNCHANGED checked

\* the loop is over without a return
Unreachable ==
    /\ pc = "loop"
    /\ k > Len(dns_result.mx_records)
    /\ smtp_result' = [valid |-> FALSE,
                       reason |-> "Unable to connect to any SMTP server"]
    /\ pc' = "assemble"
    /\ UNCHANGED <<emails, results, idx, email, domain, result, answer,
                   dns_exc, dns_result, k, code, message, open, trail>>
    /\ UNCHANGED proc
    /\ UNCHANGED checked

----------------------------------------------------------------------------
(* Specifications *)

\* the steps of the program when the resolver answers with rrsets of MX
Step(MX) ==
    \/ BulkLoop
    \/ SyntaxFail
    \/ SyntaxPass
    \/ \E a \in MX : DnsResolved(a)
    \/ \E e \in DnsErrors : DnsRaised(e)
    \/ DnsGateFail
    \/ DnsGatePass
    \/ ConnectRefused
    \/ ConnectNoGreeting
    \/ ConnectOk
    \/ HeloOk
    \/ HeloRaised
    \/ \E c \in MailCodes : \E m \in MailMessages : MailReply(c, m)
    \/ MailRaised
    \/ MailQuitOk
    \/ MailQuitRaised
    \/ \E c \in RcptCodes : \E m \in Messages : RcptReply(c, m)
    \/ RcptRaised
    \/ RcptQuitOk
    \/ RcptQuitRaised
    \/ Accepted
    \/ AcceptedUndecodable
    \/ Rejected
    \/ TemporaryFailure
    \/ Inconclusive
    \/ Unreachable
    \/ Assemble
    \/ BulkAppend
    \/ BulkReturn

Next == Step(MxAnswers(MaxMx))

\* one address, any resolver answer of up to MaxMx records
Spec == Init /\ [][Next]_vars

NextBulk == Step(MxAnswers(1))

\* a list of addresses, each domain served by a single MX record
SpecBulk == InitBulk /\ [][NextBulk]_vars

----------------------------------------------------------------------------
(* main: the command line *)

\* "--bulk"
BulkFlag == <<"-", "-", "b", "u", "l", "k">>

\* the command lines: no argument, one address, or --bulk and addresses
CommandLines ==
    {<<>>}
    \cup {<<a>> : a \in Addresses}
    \cup {<<BulkFlag>> \o s : s \in SeqsUpTo(Addresses, MaxBulk)}

InitMain ==
    /\ argv \in CommandLines
    /\ emails = <<>>
    /\ results = <<>>
    /\ idx = 1
    /\ pc = "main"
    /\ email = <<>>
    /\ domain = <<>>
    /\ result = None
    /\ checked = <<>>
    /\ answer = <<>>
    /\ dns_exc = ""
    /\ dns_result = None
    /\ k = 0
    /\ code = 0
    /\ message = <<>>
    /\ smtp_result = None
    /\ open = {}
    /\ trail = <<>>
    /\ caller = "main"
    /\ stdout = None
    /\ exit_code = -1

\* main: no argument; the error is printed and sys.exit(1) ends the process
MainUsage ==
    /\ pc = "main"
    /\ Len(argv) < 1
    /\ stdout' = [error |-> "No email provided"]
    /\ exit_code' = 1
    /\ pc' = "exit"
    /\ UNCHANGED <<emails, results, idx, email, domain, result, answer,
                   dns_exc, dns_result, k, code, message, smtp_result, open,
                   trail, argv, caller>>
    /\ UNCHANGED checked

\* main: --bulk; validate_bulk is called with the remaining arguments
MainBulk ==
    /\ pc = "main"
    /\ Len(argv) >= 1
    /\ argv[1] = BulkFlag
    /\ emails' = Tail(argv)
    /\ caller' = "validate_bulk"
    /\ pc' = "bulk"
    /\ UNCHANGED <<results, idx, email, domain, result, answer, dns_exc,
                   dns_result, k, code, message, smtp_result, open, trail,
                   argv, stdout, exit_code>>
    /\ UNCHANGED checked

\* main: one address; validate_email is called with it, normalises it and
\* creates the record
MainSingle ==
    /\ pc = "main"
    /\ Len(argv) >= 1
    /\ argv[1] # BulkFlag
    /\ email' = Normalize(argv[1])
    /\ result' = NewResult(Normalize(argv[1]))
    /\ caller' = "main"
    /\ pc' = "syntax"
    /\ UNCHANGED <<emails, results, idx, domain, answer, dns_exc, dns_result,
                   k, code, message, smtp_result, open, trail, argv, stdout,
                   exit_code>>
    /\ UNCHANGED checked

\* main: the record validate_email returned is printed; the process ends
\* with status 0
MainPrintSingle ==
    /\ pc = "return"
    /\ caller = "main"
    /\ stdout' = result
    /\ exit_code' = 0
    /\ pc' = "exit"
    /\ UNCHANGED <<emails, results, idx, email, domain, result, answer,
                   dns_exc, dns_result, k, code, message, smtp_result, open,
                   trail, argv, caller>>
    /\ UNCHANGED checked

\* main: the list validate_bulk returned is printed; the process ends with
\* status 0
MainPrintBulk ==
    /\ pc = "done"
    /\ stdout' = results
    /\ exit_code' = 0
    /\ pc' = "exit"
    /\ UNCHANGED <<emails, results, idx, email, domain, result, answer,
                   dns_exc, dns_result, k, code, message, smtp_result, open,
                   trail, argv, caller>>
    /\ UNCHANGED checked

\* main: an exception left validate_email or validate_bulk; main has no
\* handler, the interpreter prints the traceback to stderr and ends the
\* process with status 1
MainUncaught ==
    /\ pc = "raised"
    /\ exit_code' = 1
    /\ pc' = "exit"
    /\ UNCHANGED <<emails, results, idx, email, domain, result, answer,
                   dns_exc, dns_result, k, code, message, smtp_result, open,
                   trail, argv, caller, stdout>>
    /\ UNCHANGED checked

NextMain ==
    \/ MainUsage
    \/ MainBulk
    \/ MainSingle
    \/ Step(MxAnswers(1))
    \/ MainPrintSingle
    \/ MainPrintBulk
    \/ MainUncaught

\* the program run from the command line, each domain served by a single
\* MX record
SpecMain == InitMain /\ [][NextMain]_vars

----------------------------------------------------------------------------
(* Vocabulary of the properties *)

\* the probe has returned to validate_email
ProbeReturned == pc \in {"assemble", "return"} /\ smtp_result # None

\* validate_email is about to hand its record to the caller
RecordReturned == pc = "return"

\* the shapes of the probe's result
IsAccepted(r) ==
    /\ r.valid
    /\ "smtp_response" \in DOMAIN r

IsRejected(r) ==
    /\ ~r.valid
    /\ "smtp_code" \in DOMAIN r
    /\ r.smtp_code = 550

IsTemporaryFailure(r) ==
    /\ r.valid
    /\ "smtp_code" \in DOMAIN r
    /\ r.smtp_code \in {451, 452}
    /\ "reason" \in DOMAIN r

\* the steps at which the socket of server k is in use
InConversation == pc \in {"helo", "mail", "mail_quit", "rcpt", "rcpt_quit"}

\* the server at position j of the trail never got as far as a reply to
\* MAIL FROM: connect, HELO or MAIL FROM raised
UnreachableAt(j) ==
    /\ trail[j].raised
    /\ trail[j].mail = 0

----------------------------------------------------------------------------
(* C1 *)

\* C1: if the first MX server answers RCPT TO with 550, no later MX server
\* is connected to, the probe returns Rejected with that server and the
\* code 550, and the record has checks.smtp = FALSE and valid = FALSE.
C1_First550Decisive ==
    (Len(trail) >= 1 /\ trail[1].rcpt = 550) =>
        /\ Len(trail) = 1
        /\ pc # "loop"
        /\ ProbeReturned =>
             /\ IsRejected(smtp_result)
             /\ smtp_result.mx_server = dns_result.mx_records[1].exchange
        /\ RecordReturned => ~result.checks.smtp /\ ~result.valid

----------------------------------------------------------------------------
(* C2 *)

\* C2: if every server before position j was unreachable and server j
\* answers 250 to MAIL FROM and 250 to RCPT TO, the probe returns Accepted
\* and names server j as the server tried.
C2_FailOverAccepted ==
    \A j \in DOMAIN trail :
        ( /\ \A h \in 1..(j - 1) : UnreachableAt(h)
          /\ trail[j].mail = 250
          /\ trail[j].rcpt = 250 ) =>
            /\ Len(trail) = j
            /\ pc \notin {"loop", "raised"}
            /\ ProbeReturned =>
                 /\ IsAccepted(smtp_result)
                 /\ smtp_result.mx_server = dns_result.mx_records[j].exchange

----------------------------------------------------------------------------
(* C3 *)

\* C3: a RCPT TO reply of 451 or 452 from any server ends the iteration
\* with a TemporaryFailure result, which carries a reason and the code (a
\* clean Accepted carries neither), and the record has checks.smtp = TRUE
\* and valid = TRUE.
C3_TemporaryFailureValid ==
    \A j \in DOMAIN trail :
        trail[j].rcpt \in {451, 452} =>
            /\ Len(trail) = j
            /\ pc # "loop"
            /\ ProbeReturned =>
                 /\ IsTemporaryFailure(smtp_result)
                 /\ smtp_result.smtp_code = trail[j].rcpt
                 /\ ~IsAccepted(smtp_result)
            /\ RecordReturned => result.checks.smtp /\ result.valid

----------------------------------------------------------------------------
(* C4 *)

\* C4: no socket is leaked: while a server is talked to, its socket is the
\* only one open; when the probe turns to the next server, returns or
\* raises, no socket is open.
C4_NoSocketLeak ==
    IF InConversation THEN open = {Sock} ELSE open = {}

\* a server was connected to, a later call on it raised, and the probe is
\* at the next server with no socket open
C4_Witness ==
    /\ pc = "loop"
    /\ k = 2
    /\ Len(trail) = 1
    /\ trail[1].raised
    /\ Len(trail[1].cmds) >= 3
    /\ open = {}

----------------------------------------------------------------------------
(* C5 *)

\* C5: when the resolver yields no MX records (it raised), the probe is not
\* invoked, no server is connected to, and the record has checks.dns = FALSE
\* and valid = FALSE.
C5_DnsGate ==
    dns_exc # "" =>
        /\ pc \in {"gate", "return"}
        /\ smtp_result = None
        /\ trail = <<>>
        /\ open = {}
        /\ RecordReturned =>
             /\ result.checks.syntax
             /\ ~result.checks.dns
             /\ ~result.checks.smtp
             /\ ~result.valid

\* a record is returned after the resolver raised
C5_Witness ==
    /\ RecordReturned
    /\ dns_exc = "NXDOMAIN"
    /\ ~result.checks.dns

----------------------------------------------------------------------------
(* C6 *)

\* C6: for an address that fails validate_syntax, neither the resolver nor
\* the probe is invoked and the record has all three checks and valid FALSE.
C6_SyntaxGate ==
    (pc \notin {"bulk", "done"} /\ ~validate_syntax(email)) =>
        /\ pc \in {"syntax", "return"}
        /\ dns_result = None
        /\ dns_exc = ""
        /\ answer = <<>>
        /\ smtp_result = None
        /\ trail = <<>>
        /\ RecordReturned =>
             /\ ~result.checks.syntax
             /\ ~result.checks.dns
             /\ ~result.checks.smtp
             /\ ~result.valid

\* a record is returned for an address without '@'
C6_Witness ==
    /\ RecordReturned
    /\ emails[idx] = AddrNoAt
    /\ ~result.checks.syntax
    /\ "syntax_error" \in DOMAIN result.details

----------------------------------------------------------------------------
(* C7 *)

\* C7: no exception leaves validate_email: whatever the resolver and the
\* servers do, a syntactically valid address gets a record.
C7_NeverRaises == pc # "raised"

----------------------------------------------------------------------------
(* C8 *)

\* C8: validate_bulk on N addresses returns N records, the i-th for the
\* normalised i-th address, whatever checks fail.
C8_BulkRecords ==
    /\ pc # "raised"
    /\ pc = "done" =>
         /\ Len(results) = Len(emails)
         /\ \A j \in DOMAIN results : results[j].email = Normalize(emails[j])

----------------------------------------------------------------------------
(* C9 *)

\* C9: in every record returned, valid = syntax /\ dns /\ smtp; smtp holds
\* exactly when the probe returned Accepted or TemporaryFailure; no later
\* flag holds while an earlier one does not.
C9_FlagsConsistent ==
    RecordReturned =>
        /\ result.valid = ( /\ result.checks.syntax
                            /\ result.checks.dns
                            /\ result.checks.smtp )
        /\ result.checks.smtp = ( /\ smtp_result # None
                                  /\ \/ IsAccepted(smtp_result)
                                     \/ IsTemporaryFailure(smtp_result) )
        /\ result.checks.dns => result.checks.syntax
        /\ result.checks.smtp => result.checks.dns

\* a record is returned after the probe was rejected with 550
C9_Witness ==
    /\ RecordReturned
    /\ smtp_result # None
    /\ IsRejected(smtp_result)
    /\ result.checks.dns
    /\ ~result.valid

----------------------------------------------------------------------------
(* C10 *)

\* position of record x in the list s
PosIn(s, x) == CHOOSE j \in DOMAIN s : s[j] = x

\* C10: the MX list given to the probe and put into the record is sorted
\* ascending by priority, holds every record of the resolver's answer, and
\* keeps records of equal priority in the resolver's order.
C10_MxSortedStable ==
    (dns_result # None /\ dns_result.valid) =>
        LET mx == dns_result.mx_records
        IN  /\ \A p, q \in DOMAIN mx : p < q => mx[p].priority <= mx[q].priority
            /\ Len(mx) = Len(answer)
            /\ Range(mx) = Range(answer)
            /\ \A p, q \in DOMAIN answer :
                 (p < q /\ answer[p].priority = answer[q].priority) =>
                     PosIn(mx, answer[p]) < PosIn(mx, answer[q])
            /\ (pc \in {"loop", "helo", "mail", "mail_quit", "rcpt",
                        "rcpt_quit", "classify", "assemble", "raised",
                        "return"}) =>
                 result.details.mx_records = mx

\* the resolver answered with the less preferred record first, and the
\* record lists the preferred one first
C10_Witness ==
    /\ RecordReturned
    /\ Len(answer) >= 2
    /\ answer[1].priority > answer[2].priority
    /\ result.checks.dns
    /\ result.details.mx_records[1] = answer[2]

----------------------------------------------------------------------------
(* C11 *)

\* the RCPT TO reply codes that the probe classifies
DecisiveCodes == {250, 550, 451, 452}

\* the result of a probe that reached no decision: no server named
IsUnreachable(r) ==
    /\ ~r.valid
    /\ "mx_server" \notin DOMAIN r
    /\ "smtp_code" \notin DOMAIN r
    /\ r.reason = "Unable to connect to any SMTP server"

\* C11: when no server contacted gave a decisive RCPT TO reply, the probe
\* returns Unreachable, and only after every MX record was tried; the record
\* then has syntax and dns TRUE, smtp and valid FALSE.
C11_UnreachableAfterAll ==
    ( /\ ProbeReturned
      /\ \A j \in DOMAIN trail : trail[j].rcpt \notin DecisiveCodes ) =>
        /\ IsUnreachable(smtp_result)
        /\ Len(trail) = Len(dns_result.mx_records)
        /\ RecordReturned =>
             /\ result.checks.syntax
             /\ result.checks.dns
             /\ ~result.checks.smtp
             /\ ~result.valid

\* two servers were tried, the first inconclusive on RCPT TO, the second
\* refusing MAIL FROM, and the record says unreachable
C11_Witness ==
    /\ RecordReturned
    /\ Len(trail) = 2
    /\ trail[1].rcpt = 450
    /\ trail[2].mail = 550
    /\ smtp_result # None
    /\ IsUnreachable(smtp_result)
    /\ ~result.valid

----------------------------------------------------------------------------
(* C12 *)

\* C12: in a returned record, details.syntax_error is there iff the syntax
\* gate failed, details.dns_error iff syntax passed and the resolver gave
\* nothing, details.mx_records iff the resolver gave records, and
\* details.smtp or details.smtp_error only if the probe was run.
C12_FieldPresence ==
    RecordReturned =>
        LET fields == DOMAIN result.details
        IN  /\ ("syntax_error" \in fields) = ~validate_syntax(email)
            /\ ("dns_error" \in fields) =
                 (validate_syntax(email) /\ dns_exc # "")
            /\ ("mx_records" \in fields) =
                 (dns_result # None /\ dns_exc = "")
            /\ ("smtp" \in fields \/ "smtp_error" \in fields) =>
                 smtp_result # None
            /\ smtp_result # None => "smtp" \in fields

\* a record returned at the DNS gate holds dns_error and nothing else
C12_Witness ==
    /\ RecordReturned
    /\ dns_exc = "NoAnswer"
    /\ DOMAIN result.details = {"dns_error"}

----------------------------------------------------------------------------
(* C13 *)

\* C13 as stated: a resolver error other than NXDOMAIN and NoAnswer gives
\* checks.dns = FALSE with the reason DnsUnavailable.
C13_DnsUnavailableReason ==
    (RecordReturned /\ dns_exc \notin {"", "NXDOMAIN", "NoAnswer"}) =>
        /\ ~result.checks.dns
        /\ "dns_error" \in DOMAIN result.details
        /\ result.details.dns_error = "DnsUnavailable"

\* C13 amended: every resolver error gives the same record, with
\* checks.dns = FALSE and the one reason "No MX records found for domain";
\* the record does not tell a resolver failure from a domain without MX.
C13_DnsErrorsCollapse ==
    (RecordReturned /\ dns_exc # "") =>
        result = [NewResult(email) EXCEPT
                    !.checks.syntax = TRUE,
                    !.details = ("dns_error" :>
                                   "No MX records found for domain")]

\* a record is returned after the resolver timed out
C13_Witness ==
    /\ RecordReturned
    /\ dns_exc = "Timeout"
    /\ "dns_error" \in DOMAIN result.details

----------------------------------------------------------------------------
(* C14 *)

----------------------------------------------------------------------------
(* C15 *)

\* C15: run with one address, the process prints the record and ends with
\* status 0 whatever happened; only a missing argument gives another status.
C15_SingleModeExitZero ==
    pc = "exit" =>
        /\ (Len(argv) >= 1 /\ argv[1] # BulkFlag) =>
             /\ exit_code = 0
             /\ stdout # None
             /\ stdout.email = Normalize(argv[1])
        /\ exit_code # 0 => argv = <<>>

----------------------------------------------------------------------------
(* C16 *)

\* C16: on a server whose MAIL FROM reply is not 250, RCPT TO is never
\* issued, the server gives no result, and the probe goes on to the next MX
\* record, or returns Unreachable when it was the last.
C16_MailRefusedAdvances ==
    \A j \in DOMAIN trail :
        trail[j].mail \notin {0, 250} =>
            /\ trail[j].rcpt = 0
            /\ "RCPT" \notin Range(trail[j].cmds)
            /\ j = Len(trail) =>
                 /\ pc \in {"mail_quit", "loop", "assemble", "return"}
                 /\ pc = "loop" => k = j + 1
                 /\ ProbeReturned =>
                      /\ IsUnreachable(smtp_result)
                      /\ j = Len(dns_result.mx_records)

\* the first server refused MAIL FROM and the second accepted the address
C16_Witness ==
    /\ ProbeReturned
    /\ Len(trail) = 2
    /\ trail[1].mail = 550
    /\ trail[1].cmds[Len(trail[1].cmds)] = "QUIT"
    /\ trail[2].rcpt = 250
    /\ IsAccepted(smtp_result)

----------------------------------------------------------------------------
(* C17 *)

\* C17: a RCPT TO reply code outside 250, 550, 451, 452 never ends the
\* iteration: the probe goes on to the next MX record, and a result that
\* names a server names a later one; with no later server it is Unreachable.
C17_InconclusiveAdvances ==
    \A j \in DOMAIN trail :
        trail[j].rcpt \notin ({0} \cup DecisiveCodes) =>
            /\ j = Len(trail) =>
                 /\ pc \in {"rcpt_quit", "classify", "loop", "assemble",
                            "return"}
                 /\ pc = "loop" => k = j + 1
                 /\ ProbeReturned =>
                      /\ IsUnreachable(smtp_result)
                      /\ j = Len(dns_result.mx_records)
            /\ (ProbeReturned /\ ~IsUnreachable(smtp_result)) =>
                 /\ Len(trail) > j
                 /\ smtp_result.mx_server =
                      dns_result.mx_records[Len(trail)].exchange

\* the first server answered 450 and the second rejected the address
C17_Witness ==
    /\ ProbeReturned
    /\ Len(trail) = 2
    /\ trail[1].rcpt = 450
    /\ ~trail[1].raised
    /\ trail[2].rcpt = 550
    /\ IsRejected(smtp_result)

----------------------------------------------------------------------------
(* C18 *)

\* the steps inside the loop over mx_records
InLoop == pc = "loop" \/ InConversation \/ pc = "classify"

----------------------------------------------------------------------------
(* C19 *)

\* the commands of a full conversation, the greeting read by connect among
\* them
FullConversation == <<"connect", "greeting", "HELO", "MAIL", "RCPT">>

\* C19: the commands issued on a server are a prefix of connect, HELO, MAIL
\* FROM, RCPT TO, with QUIT after MAIL FROM (refused) or RCPT TO; RCPT TO
\* only after a 250 to MAIL FROM; QUIT last on every conversation that ended
\* without an exception; DATA never.
C19_CommandOrder ==
    \A j \in DOMAIN trail :
        LET c == trail[j].cmds
            over == j < Len(trail) \/ ~InConversation
        IN  /\ \E n \in 1..5 :
                 \/ c = SubSeq(FullConversation, 1, n)
                 \/ n >= 4 /\ c = SubSeq(FullConversation, 1, n) \o <<"QUIT">>
            /\ "RCPT" \in Range(c) => trail[j].mail = 250
            /\ (Len(c) = 5 /\ c[5] = "QUIT") => trail[j].mail \notin {0, 250}
            /\ "DATA" \notin Range(c)
            /\ (over /\ ~trail[j].raised) => c[Len(c)] = "QUIT"

\* a conversation went through all of connect, HELO, MAIL FROM, RCPT TO, QUIT
C19_Witness ==
    /\ Len(trail) >= 1
    /\ trail[1].cmds = FullConversation \o <<"QUIT">>
    /\ ~trail[1].raised
    /\ trail[1].mail = 250

----------------------------------------------------------------------------
(* C20 *)

\* the probe returned from the classification of a decisive RCPT TO reply
DecisiveEnd ==
    /\ RecordReturned
    /\ trail # <<>>
    /\ ~trail[Len(trail)].raised
    /\ trail[Len(trail)].rcpt \in DecisiveCodes

\* C20 as stated: after a decisive outcome details.smtp holds the server
\* tried, the numeric code and the reply message, all three.
C20_AllThreeFields ==
    DecisiveEnd =>
        /\ "smtp" \in DOMAIN result.details
        /\ {"mx_server", "smtp_code", "smtp_response"}
             \subseteq DOMAIN result.details.smtp

\* C20 amended: after a decisive outcome details.smtp holds the server
\* tried and, when Accepted, the reply message without the code; when
\* Rejected or TemporaryFailure, the code and a reason without the reply
\* message.
C20_ServerAndCodeOrMessage ==
    DecisiveEnd =>
        /\ "smtp" \in DOMAIN result.details
        /\ LET d == result.details.smtp
               last == trail[Len(trail)]
           IN  /\ "mx_server" \in DOMAIN d
               /\ d.mx_server = last.host
               /\ IF last.rcpt = 250
                  THEN /\ "smtp_response" \in DOMAIN d
                       /\ d.smtp_response = Decode(message).text
                       /\ "smtp_code" \notin DOMAIN d
                  ELSE /\ "smtp_code" \in DOMAIN d
                       /\ d.smtp_code = last.rcpt
                       /\ "reason" \in DOMAIN d
                       /\ "smtp_response" \notin DOMAIN d

\* a record is returned after a 452 reply to RCPT TO
C20_Witness ==
    /\ DecisiveEnd
    /\ trail[Len(trail)].rcpt = 452
    /\ result.details.smtp.smtp_code = 452

----------------------------------------------------------------------------
(* C21 *)

\* a validation of emails[idx] is under way or has just returned
InValidation == pc \notin {"bulk", "done", "main"}

\* C21: from the start of a validation to its return the address is the
\* trimmed and lower-cased input and nothing else: the record's email field,
\* the string given to the syntax check, the string whose domain part is
\* resolved and the string given to every RCPT TO are that one value.
C21_NormalizedOnce ==
    InValidation =>
        LET n == Normalize(emails[idx])
        IN  /\ email = n
            /\ result.email = n
            /\ pc # "syntax" => checked = n
            /\ (pc # "syntax" /\ result.checks.syntax) =>
                   domain = SplitDomain(n)
            /\ \A j \in DOMAIN trail :
                   "RCPT" \in Range(trail[j].cmds) => trail[j].to = n

\* the record of " A@b.Cc\n" is returned after a RCPT TO for "a@b.cc"
C21_Witness ==
    /\ RecordReturned
    /\ emails[idx] = AddrCased
    /\ result.email = AddrPlain
    /\ checked = AddrPlain
    /\ domain = <<"b", ".", "c", "c">>
    /\ trail # <<>>
    /\ trail[1].to = AddrPlain

----------------------------------------------------------------------------
(* C22 *)

\* server j answered RCPT TO with a decisive code and the QUIT after it
\* raised
QuitFailedAfterDecisive(j) ==
    /\ trail[j].rcpt \in DecisiveCodes
    /\ trail[j].raised

\* C22: when a server has answered RCPT TO with 250, 550, 451 or 452 and the
\* closing QUIT fails, no later server is contacted and the probe returns
\* the outcome of that code from that server.
C22_QuitFailureKeepsOutcome ==
    \A j \in DOMAIN trail :
        QuitFailedAfterDecisive(j) =>
            /\ j = Len(trail)
            /\ pc # "loop"
            /\ ProbeReturned =>
                 /\ "mx_server" \in DOMAIN smtp_result
                 /\ smtp_result.mx_server = trail[j].host
                 /\ trail[j].rcpt = 250 => IsAccepted(smtp_result)
                 /\ trail[j].rcpt = 550 => IsRejected(smtp_result)
                 /\ trail[j].rcpt \in {451, 452} =>
                        IsTemporaryFailure(smtp_result)

====
